---- MODULE Spec2Model ----
(***************************************************************************)
(* Model of src/server.js: the mock financial-data API.  The record store  *)
(* (assets, historicalPrices, positions) is generated once at startup and  *)
(* then queried by the three GET handlers /assets, /prices, /portfolios.   *)
(*                                                                         *)
(* Time.  An instant is an integer number of ticks since 2023-01-01T00:00Z *)
(* (the startDate of generateHistoricalPrices), TicksPerDay ticks to the   *)
(* day.  tz is the host's local-time offset from UTC in ticks; Date's      *)
(* toDateString() renders the LOCAL calendar day.                          *)
(*                                                                         *)
(* Strings.  A query-string value is a sequence of symbols: an asset-name  *)
(* chunk or the comma.  "Bitcoin,Google" is <<"Bitcoin", ",", "Google">>,  *)
(* the empty string is <<>>.  A date string is a record naming its         *)
(* syntactic form: a date-only ISO form (parsed as UTC midnight), a full   *)
(* ISO form with a Z suffix, or text that is no date.                      *)
(***************************************************************************)
EXTENDS Integers, Sequences, FiniteSets, TLC

VARIABLES assets, historicalPrices, positions, tz, startedAt, now, req, sent, prevSent

vars == <<assets, historicalPrices, positions, tz, startedAt, now, req, sent, prevSent>>

store == <<assets, historicalPrices, positions>>

-----------------------------------------------------------------------------
(* Bounds of the model *)

\* ticks per calendar day (resolution of instants)
TicksPerDay == 2
\* longest raw `assets` query string, in symbols
MaxQueryLen == 3
\* latest startup day (days since 2023-01-01); startup is on this day or the day before
MaxStartDay == 8
\* length in days of the trailing window of generatePositionsForTheMonth
MonthDays == 2
\* ticks the clock may advance after startup
MaxClockTicks == 1

(* Program constants *)

\* currentDate.setDate(currentDate.getDate() + 7)
DaysPerStep == 7
\* Math.random() * 10000
BasePriceRange == 10000
\* Math.random() * 1000
PriceJitterRange == 1000
\* Math.floor(Math.random() * 100) + 1
MaxQuantity == 100
\* Math.floor(Math.random() * 10) + 1
MaxPositionPrice == 10

-----------------------------------------------------------------------------
(* Date strings and Date objects *)

Absent == [form |-> "absent", day |-> 0, tick |-> 0]

NotADate == [form |-> "text", day |-> 0, tick |-> 0]

\* "YYYY-MM-DD"
DateOnly(d) == [form |-> "date", day |-> d, tick |-> 0]

\* Date.prototype.toISOString of the instant t: "YYYY-MM-DDTHH:mm:ss.sssZ"
toISOString(t) == [form |-> "iso", day |-> t \div TicksPerDay, tick |-> t % TicksPerDay]

\* toISOString().split('T')[0]
IsoDatePart(t) == DateOnly(toISOString(t).day)

\* JavaScript truthiness of a query parameter that is a date string or undefined
Truthy(s) == s.form # "absent"

\* new Date(dateString): a Date object, invalid (NaN) when the string is no date
NewDate(s) ==
    IF s.form \in {"date", "iso"}
    THEN [valid |-> TRUE, time |-> s.day * TicksPerDay + s.tick]
    ELSE [valid |-> FALSE, time |-> 0]

\* new Date(timestamp) of a numeric timestamp
NewDateOfTime(t) == [valid |-> TRUE, time |-> t]

\* a bug: `date instanceof Date` alone, which holds of an invalid Date too
isValidDateInstanceOnly(dateString) == TRUE

isValidDate(dateString) == NewDate(dateString).valid

\* Date.prototype.toDateString: the local calendar day, or "Invalid Date"
toDateString(d) ==
    IF d.valid
    THEN [valid |-> TRUE, day |-> (d.time + tz) \div TicksPerDay]
    ELSE [valid |-> FALSE, day |-> 0]

-----------------------------------------------------------------------------
(* Startup: the mocked data *)

AssetNames == <<"Bitcoin", "Ethereum", "Apple Inc.", "Google", "US Dollar", "British Pound">>

AssetTypes == <<"crypto", "crypto", "stock", "stock", "fiat", "fiat">>

NumAssets == Len(AssetNames)

\* The i-th value of the startup Math.random() stream selected by seed.
Random(seed, i) == seed * 7919 + i * 104729

\* The k-th uuidv4() drawn at startup; startup draws are pairwise distinct.
StartupUuid(k) == k

\* A string of one chunk
Name(n) == <<n>>

InitialAssets ==
    [i \in 1..NumAssets |->
        [id |-> StartupUuid(i), name |-> Name(AssetNames[i]), type |-> AssetTypes[i]]]

\* One record per asset per week from startDate (instant 0) while currentDate <= endDate
generateHistoricalPrices(endDate, seed) ==
    LET weeks == (endDate \div (DaysPerStep * TicksPerDay)) + 1
        price == Random(seed, 0) % BasePriceRange
    IN [j \in 1..(NumAssets * weeks) |->
          LET a == ((j - 1) \div weeks) + 1
              k == (j - 1) % weeks
          IN [id        |-> StartupUuid(NumAssets + j),
              asset     |-> Name(AssetNames[a]),
              price     |-> price + (Random(seed, j) % PriceJitterRange),
              timestamp |-> k * DaysPerStep * TicksPerDay]]

\* One record per asset per day from (today - one month) up to, not including, today
generatePositionsForTheMonth(today, seed) ==
    LET endDay   == IsoDatePart(today).day
        startDay == endDay - MonthDays
    IN [j \in 1..(NumAssets * (endDay - startDay)) |->
          LET d == startDay + ((j - 1) \div NumAssets)
              a == ((j - 1) % NumAssets) + 1
          IN [id       |-> j,
              asset    |-> StartupUuid(a),
              quantity |-> (Random(seed, 2 * j) % MaxQuantity) + 1,
              asOf     |-> toISOString(NewDate(DateOnly(d)).time),
              price    |-> (Random(seed, 2 * j + 1) % MaxPositionPrice) + 1]]

-----------------------------------------------------------------------------
(* Requests and responses *)

AbsentParam == [kind |-> "absent", val |-> <<>>]

\* ?assets=a&assets=b : express hands the handler an array
ArrayParam == [kind |-> "array", val |-> <<>>]

StringParam(s) == [kind |-> "string", val |-> s]

\* a bug: `assetIds === undefined`, which lets the empty string through
TruthyParamDefined(p) == p.kind # "absent"

\* !assetIds is false
TruthyParam(p) == p.kind = "array" \/ (p.kind = "string" /\ p.val # <<>>)

NoPortfolio == [id |-> 0, asOf |-> Absent, positions |-> <<>>]

ErrorResponse(status, message) ==
    [status |-> status, kind |-> "error", error |-> message, list |-> <<>>, portfolio |-> NoPortfolio]

ListResponse(list) ==
    [status |-> 200, kind |-> "list", error |-> <<>>, list |-> list, portfolio |-> NoPortfolio]

PortfolioResponse(p) ==
    [status |-> 200, kind |-> "portfolio", error |-> <<>>, list |-> <<>>, portfolio |-> p]

MissingParameter == ErrorResponse(400, <<"assets parameter is required">>)

InvalidDate == ErrorResponse(400, <<"Invalid date format">>)

InternalFailure == ErrorResponse(500, <<"Internal server error">>)

-----------------------------------------------------------------------------
(* Array helpers *)

RECURSIVE Split(_)
\* String.prototype.split(',')
Split(s) ==
    IF \A i \in 1..Len(s) : s[i] # ","
    THEN <<s>>
    ELSE LET i == CHOOSE k \in 1..Len(s) : s[k] = "," /\ \A m \in 1..(k - 1) : s[m] # ","
         IN <<SubSeq(s, 1, i - 1)>> \o Split(SubSeq(s, i + 1, Len(s)))

\* Array.prototype.includes
Includes(arr, x) == \E i \in 1..Len(arr) : arr[i] = x

\* Position of x in an array sorted by descending timestamp, after every element
\* that does not compare greater (the sort is stable)
InsertDesc(sorted, x) ==
    LET n == Cardinality({i \in 1..Len(sorted) : sorted[i].timestamp >= x.timestamp})
    IN SubSeq(sorted, 1, n) \o <<x>> \o SubSeq(sorted, n + 1, Len(sorted))

RECURSIVE SortDesc(_)
\* arr.sort((a, b) => new Date(b.timestamp) - new Date(a.timestamp))
SortDesc(arr) ==
    IF arr = <<>> THEN <<>>
    ELSE InsertDesc(SortDesc(SubSeq(arr, 1, Len(arr) - 1)), arr[Len(arr)])

-----------------------------------------------------------------------------
(* GET /prices *)

\* a bug: the `return` is missing, so the handler goes on to send its result
ReturnInvalidDateFallThrough(rest) == <<InvalidDate>> \o rest

\* return res.status(400).json({error: 'Invalid date format'}): the handler ends here
ReturnInvalidDate(rest) == <<InvalidDate>>

\* return res.status(400).json({error: 'assets parameter is required'})
ReturnMissingParameter(rest) == <<MissingParameter>>

\* a bug: only the first requested asset is matched
FilterByAssetsFirstOnly(requestedAssets) ==
    SelectSeq(historicalPrices, LAMBDA price : price.asset = requestedAssets[1])

\* historicalPrices.filter(price => requestedAssets.includes(price.asset))
FilterByAssets(requestedAssets) ==
    SelectSeq(historicalPrices, LAMBDA price : Includes(requestedAssets, price.asset))

\* priceDate >= fromDate && priceDate <= toDate
FilterByRange(filteredPrices, from, to) ==
    LET fromDate == NewDate(from)
        toDate   == NewDate(to)
    IN SelectSeq(filteredPrices,
                 LAMBDA price : LET priceDate == NewDateOfTime(price.timestamp)
                                IN priceDate.time >= fromDate.time /\ priceDate.time <= toDate.time)

\* new Date(price.timestamp).toDateString() === asOfDate.toDateString()
FilterByDay(filteredPrices, asOf) ==
    LET asOfDate == NewDate(asOf)
    IN SelectSeq(filteredPrices,
                 LAMBDA price : toDateString(NewDateOfTime(price.timestamp)) = toDateString(asOfDate))

\* a bug: an asset without a record is left out instead of getting a placeholder
latestPricesOmitting(requestedAssets, filteredPrices, uuids) ==
    LET matched == SelectSeq(requestedAssets,
                             LAMBDA assetId : \E j \in 1..Len(filteredPrices) :
                                                 filteredPrices[j].asset = assetId)
    IN [i \in 1..Len(matched) |->
          SortDesc(SelectSeq(filteredPrices, LAMBDA price : price.asset = matched[i]))[1]]

\* assetPrices[0] || {id: uuidv4(), asset: assetId, price: 0}
latestPrices(requestedAssets, filteredPrices, uuids) ==
    [i \in 1..Len(requestedAssets) |->
        LET assetId     == requestedAssets[i]
            assetPrices == SortDesc(SelectSeq(filteredPrices, LAMBDA price : price.asset = assetId))
        IN IF Len(assetPrices) > 0
           THEN assetPrices[1]
           ELSE [id |-> uuids[i], asset |-> assetId, price |-> 0]]

\* if (asOf) res.json(latestPrices) else res.json(filteredPrices)
PricesResult(q, requestedAssets, filteredPrices, uuids) ==
    IF Truthy(q.asOf)
    THEN <<ListResponse(latestPrices(requestedAssets, filteredPrices, uuids))>>
    ELSE <<ListResponse(filteredPrices)>>

\* a bug: `from || to`, a range given by a single bound
RangeGivenEither(from, to) == Truthy(from) \/ Truthy(to)

\* if (from && to)
RangeGiven(from, to) == Truthy(from) /\ Truthy(to)

\* The responses the handler sends, in order; uuids[i] is the uuidv4() drawn for the
\* i-th requested asset, should one be drawn.
PricesHandler(q, uuids) ==
    IF q.assets.kind = "array"
    THEN \* assetIds.split is not a function: caught by the catch block
         <<InternalFailure>>
    ELSE
    LET requestedAssets == Split(q.assets.val)
        filteredPrices  == FilterByAssets(requestedAssets)
    IN IF ~TruthyParam(q.assets)
       THEN ReturnMissingParameter(PricesResult(q, requestedAssets, filteredPrices, uuids))
       ELSE IF RangeGiven(q.from, q.to)
       THEN IF ~isValidDate(q.from) \/ ~isValidDate(q.to)
            THEN ReturnInvalidDate(PricesResult(q, requestedAssets, filteredPrices, uuids))
            ELSE PricesResult(q, requestedAssets, FilterByRange(filteredPrices, q.from, q.to), uuids)
       ELSE IF Truthy(q.asOf)
       THEN IF ~isValidDate(q.asOf)
            THEN ReturnInvalidDate(PricesResult(q, requestedAssets, filteredPrices, uuids))
            ELSE PricesResult(q, requestedAssets, FilterByDay(filteredPrices, q.asOf), uuids)
       ELSE PricesResult(q, requestedAssets, filteredPrices, uuids)

\* a bug: the reduction sorts historicalPrices itself
PricesStoreEffectInPlace(q) ==
    IF TruthyParam(q.assets) /\ Truthy(q.asOf) THEN SortDesc(historicalPrices) ELSE historicalPrices

\* What the handler leaves in historicalPrices: filter() builds new arrays and
\* sort() reorders only the array filter() returned.
PricesStoreEffect(q) == historicalPrices

-----------------------------------------------------------------------------
(* GET /portfolios *)

\* a bug: the instants are compared, not their calendar days
FilterPositionsSameInstant(asOf) ==
    LET asOfDate == NewDate(asOf)
    IN SelectSeq(positions, LAMBDA position : NewDate(position.asOf).time = asOfDate.time)

\* positions.filter(position => new Date(position.asOf).toDateString() === asOfDate.toDateString())
FilterPositions(asOf) ==
    LET asOfDate == NewDate(asOf)
    IN SelectSeq(positions,
                 LAMBDA position : toDateString(NewDate(position.asOf)) = toDateString(asOfDate))

\* a bug: `new Date().toISOString() || asOf`, the snapshot always stamped with now
portfolioStampedNow(asOf, filteredPositions, uuid, current) ==
    [id        |-> uuid,
     asOf      |-> toISOString(current),
     positions |-> filteredPositions]

\* {id: uuidv4(), asOf: asOf || new Date().toISOString(), positions: filteredPositions}
\* current is the instant new Date() reads
portfolio(asOf, filteredPositions, uuid, current) ==
    [id        |-> uuid,
     asOf      |-> IF Truthy(asOf) THEN asOf ELSE toISOString(current),
     positions |-> filteredPositions]

PortfoliosHandler(q, uuid, current) ==
    IF Truthy(q.asOf)
    THEN IF ~isValidDate(q.asOf)
         THEN ReturnInvalidDate(<<PortfolioResponse(portfolio(q.asOf, positions, uuid, current))>>)
         ELSE <<PortfolioResponse(portfolio(q.asOf, FilterPositions(q.asOf), uuid, current))>>
    ELSE <<PortfolioResponse(portfolio(q.asOf, positions, uuid, current))>>

-----------------------------------------------------------------------------
(* Inputs *)

\* The uuidv4() values drawn while one request is handled form a stream of
\* pairwise distinct values; which stream a request gets is random.
UuidStreams == {1, 2}

\* the i-th uuidv4() of a stream; no startup uuid is drawn again
uuidv4(stream, i) == stream * 100 + i

Seeds == {0, 1}

TzOffsets == {-1, 0, 1}

StartDays == {MaxStartDay - 1, MaxStartDay}

QuerySymbols == {"Bitcoin", "Google", ","}

QueryStrings == UNION {[1..n -> QuerySymbols] : n \in 0..MaxQueryLen}

AssetsParams == {AbsentParam, ArrayParam} \cup {StringParam(s) : s \in QueryStrings}

\* noon (or the nearest tick after midnight) of the day of the second weekly price
NoonOfStep == toISOString(DaysPerStep * TicksPerDay + 1)

AsOfInputs == {Absent, NotADate, DateOnly(DaysPerStep), NoonOfStep}

FromInputs == {Absent, NotADate, DateOnly(0), NoonOfStep}

ToInputs == {Absent, NotADate, DateOnly(0), DateOnly(DaysPerStep)}

PricesRequests ==
    [route : {"prices"}, assets : AssetsParams, asOf : AsOfInputs, from : FromInputs, to : ToInputs]

PortfoliosRequests ==
    [route : {"portfolios"}, assets : {AbsentParam}, asOf : AsOfInputs, from : {Absent}, to : {Absent}]

AssetsRequest ==
    [route |-> "assets", assets |-> AbsentParam, asOf |-> Absent, from |-> Absent, to |-> Absent]

NoRequest ==
    [route |-> "none", assets |-> AbsentParam, asOf |-> Absent, from |-> Absent, to |-> Absent]

-----------------------------------------------------------------------------
(* The state machine *)

Init ==
    \E d \in StartDays, seed \in Seeds, z \in TzOffsets :
        /\ startedAt = d * TicksPerDay
        /\ now = startedAt
        /\ tz = z
        /\ assets = InitialAssets
        /\ historicalPrices = generateHistoricalPrices(startedAt, seed)
        /\ positions = generatePositionsForTheMonth(startedAt, seed)
        /\ req = NoRequest
        /\ sent = <<>>
        /\ prevSent = <<>>

\* The server handles one request at a time; req and sent are the exchange being
\* handled, empty between exchanges.
Idle == req = NoRequest

GetAssets ==
    /\ Idle
    /\ req' = AssetsRequest
    /\ sent' = <<ListResponse(assets)>>
    /\ UNCHANGED <<assets, historicalPrices, positions, tz, startedAt, now, prevSent>>

\* The uuidv4() values at hand while q is handled, one per requested asset
PricesDraws(q, stream) ==
    [i \in 1..(IF q.assets.kind = "string" THEN Len(Split(q.assets.val)) ELSE 0) |-> uuidv4(stream, i)]

GetPrices ==
    /\ Idle
    /\ \E q \in PricesRequests :
         \E stream \in UuidStreams :
           /\ req' = q
           /\ sent' = PricesHandler(q, PricesDraws(q, stream))
           /\ historicalPrices' = PricesStoreEffect(q)
           /\ UNCHANGED <<assets, positions, tz, startedAt, now, prevSent>>

GetPortfolios ==
    /\ Idle
    /\ \E q \in PortfoliosRequests, stream \in UuidStreams :
           /\ req' = q
           /\ sent' = PortfoliosHandler(q, uuidv4(stream, 1), now)
           /\ UNCHANGED <<assets, historicalPrices, positions, tz, startedAt, now, prevSent>>

\* The client sends the request it has just sent once more, some time later;
\* prevSent keeps the response to the first call.
RepeatPrices ==
    /\ req.route = "prices"
    /\ prevSent = <<>>
    /\ \E t \in now..(startedAt + MaxClockTicks) :
         \E stream \in UuidStreams :
           /\ now' = t
           /\ prevSent' = sent
           /\ sent' = PricesHandler(req, PricesDraws(req, stream))
           /\ historicalPrices' = PricesStoreEffect(req)
           /\ UNCHANGED <<assets, positions, tz, startedAt, req>>

RepeatPortfolios ==
    /\ req.route = "portfolios"
    /\ prevSent = <<>>
    /\ \E t \in now..(startedAt + MaxClockTicks), stream \in UuidStreams :
           /\ now' = t
           /\ prevSent' = sent
           /\ sent' = PortfoliosHandler(req, uuidv4(stream, 1), t)
           /\ UNCHANGED <<assets, historicalPrices, positions, tz, startedAt, req>>

\* The exchange is over: the client has the response
Deliver ==
    /\ ~Idle
    /\ req' = NoRequest
    /\ sent' = <<>>
    /\ prevSent' = <<>>
    /\ UNCHANGED <<assets, historicalPrices, positions, tz, startedAt, now>>

\* the host clock advances between exchanges
Tick ==
    /\ Idle
    /\ now < startedAt + MaxClockTicks
    /\ now' = now + 1
    /\ UNCHANGED <<assets, historicalPrices, positions, tz, startedAt, req, sent, prevSent>>

Next ==
    \/ GetAssets
    \/ GetPrices
    \/ GetPortfolios
    \/ Deliver
    \/ Tick

Spec == Init /\ [][Next]_vars

\* The same server with a client that may send each request twice
NextRepeat ==
    \/ GetAssets
    \/ GetPrices
    \/ GetPortfolios
    \/ RepeatPrices
    \/ RepeatPortfolios
    \/ Deliver
    \/ Tick

SpecRepeat == Init /\ [][NextRepeat]_vars

-----------------------------------------------------------------------------
(* Vocabulary of the properties, stated without the handlers' own operators *)

Supplied(s) == s.form # "absent"

Parseable(s) == s.form \in {"date", "iso"}

Unparseable(s) == Supplied(s) /\ ~Parseable(s)

\* the instant a parseable date string denotes
InstantOf(s) == s.day * TicksPerDay + s.tick

\* the local calendar day of an instant
LocalDayOf(t) == (t + tz) \div TicksPerDay

PricesCall == req.route = "prices"

PortfoliosCall == req.route = "portfolios"

\* the price query's assetIds: present, a string, not empty
AssetIdsGiven == PricesCall /\ req.assets.kind = "string" /\ req.assets.val # <<>>

AssetIds == Split(req.assets.val)

Requested(a) == \E i \in 1..Len(AssetIds) : AssetIds[i] = a

CompleteRange == Supplied(req.from) /\ Supplied(req.to)

IsPlaceholder(e) == DOMAIN e = {"id", "asset", "price"}

\* the store's price records of the requested assets, in store order
RequestedPrices == SelectSeq(historicalPrices, LAMBDA r : Requested(r.asset))

\* the response is a single result carrying this list
RepliesList(list) ==
    /\ Len(sent) = 1
    /\ sent[1].status = 200
    /\ sent[1].kind = "list"
    /\ sent[1].list = list

\* the response is the latest-per-asset reduction of the records of the day of asOf
RepliesLatestOfDay ==
    /\ Len(sent) = 1
    /\ sent[1].status = 200
    /\ sent[1].kind = "list"
    /\ Len(sent[1].list) = Len(AssetIds)
    /\ \A i \in 1..Len(AssetIds) :
         LET e == sent[1].list[i]
             sameDay == {j \in 1..Len(historicalPrices) :
                            /\ historicalPrices[j].asset = AssetIds[i]
                            /\ LocalDayOf(historicalPrices[j].timestamp) = LocalDayOf(InstantOf(req.asOf))}
         IN IF sameDay = {}
            THEN IsPlaceholder(e) /\ e.asset = AssetIds[i] /\ e.price = 0
            ELSE \E j \in sameDay :
                    /\ e = historicalPrices[j]
                    /\ \A k \in sameDay : historicalPrices[k].timestamp <= historicalPrices[j].timestamp

-----------------------------------------------------------------------------
(* Properties *)

\* C1: a price query with parseable from and to, with or without asOf, is answered
\* with exactly the requested assets' records with from <= timestamp <= to, in store
\* order and unreduced.
C1_RangeTakesPrecedence ==
    (AssetIdsGiven /\ Parseable(req.from) /\ Parseable(req.to)) =>
        RepliesList(SelectSeq(RequestedPrices,
                              LAMBDA r : InstantOf(req.from) <= r.timestamp
                                         /\ r.timestamp <= InstantOf(req.to)))

C3_RepeatIsIdentical == prevSent # <<>> => prevSent = sent

\* a response without what is generated afresh at each call
WithoutFresh(r) ==
    [r EXCEPT !.list = [i \in 1..Len(r.list) |->
                           IF IsPlaceholder(r.list[i])
                           THEN [r.list[i] EXCEPT !.id = 0] ELSE r.list[i]],
              !.portfolio.id = 0,
              !.portfolio.asOf = IF Supplied(req.asOf) THEN @ ELSE Absent]

\* C3 amended: the second of two identical calls returns the same response as the
\* first up to the identifiers generated per call (each placeholder's id, the
\* snapshot's id) and the snapshot's asOf when none was supplied.
C3_RepeatIsIdenticalUpToFresh ==
    prevSent # <<>> =>
        /\ Len(prevSent) = Len(sent)
        /\ \A i \in 1..Len(sent) : WithoutFresh(prevSent[i]) = WithoutFresh(sent[i])

C3_Witness ==
    /\ prevSent # <<>>
    /\ prevSent # sent
    /\ PricesCall
    /\ Len(sent) = 1
    /\ \E i \in 1..Len(sent[1].list) :
          IsPlaceholder(sent[1].list[i]) /\ sent[1].list[i].id # prevSent[1].list[i].id

\* C4: with a parseable asOf and no complete range the response has one entry per
\* requested asset, in request order: the asset's record of the day of asOf with the
\* greatest timestamp, or a placeholder {id, asset, price: 0}.
C4_LatestPerAsset ==
    (AssetIdsGiven /\ Parseable(req.asOf) /\ ~CompleteRange) => RepliesLatestOfDay

C4_Witness ==
    /\ AssetIdsGiven
    /\ Parseable(req.asOf)
    /\ ~Supplied(req.from)
    /\ ~Supplied(req.to)
    /\ Len(sent) = 1
    /\ Len(sent[1].list) = 2
    /\ IsPlaceholder(sent[1].list[1])
    /\ ~IsPlaceholder(sent[1].list[2])

\* C5: with assetIds and no date parameter the response is exactly the requested
\* assets' records, each once per occurrence, in store order.
C5_UnfilteredSubsequence ==
    (AssetIdsGiven /\ ~Supplied(req.asOf) /\ ~Supplied(req.from) /\ ~Supplied(req.to))
    => RepliesList(RequestedPrices)

C5_Witness ==
    /\ AssetIdsGiven
    /\ ~Supplied(req.asOf) /\ ~Supplied(req.from) /\ ~Supplied(req.to)
    /\ AssetIds = <<Name("Google"), Name("Bitcoin")>>
    /\ Len(sent) = 1
    /\ Len(sent[1].list) >= 4
    /\ sent[1].list[1].asset = Name("Bitcoin")
    /\ sent[1].list[Len(sent[1].list)].asset = Name("Google")

\* C6: a price query without assetIds (absent or empty) fails with MissingParameter,
\* also when a date parameter is unparseable.
C6_MissingParameterFirst ==
    (PricesCall /\ (req.assets.kind = "absent" \/ req.assets = StringParam(<<>>)))
    => sent = <<MissingParameter>>

C6_Witness ==
    /\ PricesCall
    /\ req.assets = StringParam(<<>>)
    /\ Unparseable(req.asOf)
    /\ Unparseable(req.from)
    /\ sent = <<MissingParameter>>

\* C7: the snapshot holds the positions of the local calendar day of asOf, in store
\* order, under the asOf given; without asOf it holds every position, under the
\* current instant.
C7_PortfolioSnapshot ==
    /\ (PortfoliosCall /\ Parseable(req.asOf)) =>
          /\ Len(sent) = 1
          /\ sent[1].status = 200
          /\ sent[1].kind = "portfolio"
          /\ sent[1].portfolio.asOf = req.asOf
          /\ sent[1].portfolio.positions =
                SelectSeq(positions,
                          LAMBDA p : LocalDayOf(InstantOf(p.asOf)) = LocalDayOf(InstantOf(req.asOf)))
    /\ (PortfoliosCall /\ ~Supplied(req.asOf)) =>
          /\ Len(sent) = 1
          /\ sent[1].status = 200
          /\ sent[1].kind = "portfolio"
          /\ sent[1].portfolio.asOf =
                [form |-> "iso", day |-> now \div TicksPerDay, tick |-> now % TicksPerDay]
          /\ sent[1].portfolio.positions = positions

C7_Witness ==
    /\ PortfoliosCall
    /\ req.asOf.form = "iso"
    /\ req.asOf.tick > 0
    /\ Len(sent) = 1
    /\ sent[1].portfolio.asOf = req.asOf
    /\ Len(sent[1].portfolio.positions) = NumAssets
    /\ \A i \in 1..NumAssets : sent[1].portfolio.positions[i].asOf.tick = 0

\* C8: every call ends in exactly one response: a well-formed result or one of the
\* three error signals.
C8_OneTerminalOutcome ==
    ~Idle =>
        /\ Len(sent) = 1
        /\ \/ sent[1].status = 200 /\ sent[1].kind \in {"list", "portfolio"} /\ sent[1].error = <<>>
           \/ sent[1] \in {MissingParameter, InvalidDate, InternalFailure}

C8_Witness ==
    /\ PortfoliosCall
    /\ Unparseable(req.asOf)
    /\ sent = <<InvalidDate>>

\* C9: the store keeps the contents and the order startup gave it.
C9_StoreReadOnly ==
    \E seed \in Seeds :
        /\ assets = InitialAssets
        /\ historicalPrices = generateHistoricalPrices(startedAt, seed)
        /\ positions = generatePositionsForTheMonth(startedAt, seed)

C9_Witness ==
    /\ AssetIdsGiven
    /\ Parseable(req.asOf)
    /\ Parseable(req.from) /\ Parseable(req.to)
    /\ Len(sent) = 1
    /\ Len(sent[1].list) >= 1
    /\ ~IsPlaceholder(sent[1].list[1])
    /\ sent[1].list[1].timestamp > 0
    /\ \E j \in 2..Len(historicalPrices) :
          historicalPrices[j - 1].timestamp < historicalPrices[j].timestamp

\* C10: a single parseable bound (from without to, or to without from) changes
\* nothing: without asOf the response is the requested assets' records unreduced,
\* with a parseable asOf the latest-per-asset reduction of that day, with an
\* unparseable asOf InvalidDate.
C10_PartialRangeIgnored ==
    (AssetIdsGiven
       /\ \/ Parseable(req.from) /\ ~Supplied(req.to)
          \/ Parseable(req.to) /\ ~Supplied(req.from))
    => IF ~Supplied(req.asOf) THEN RepliesList(RequestedPrices)
       ELSE IF Parseable(req.asOf) THEN RepliesLatestOfDay
       ELSE sent = <<InvalidDate>>

C10_Witness ==
    /\ AssetIdsGiven
    /\ Parseable(req.from) /\ ~Supplied(req.to)
    /\ ~Supplied(req.asOf)
    /\ Len(sent) = 1
    /\ \E i \in 1..Len(sent[1].list) : sent[1].list[i].timestamp < InstantOf(req.from)

====
